---------------------------- MODULE Spec2Model ----------------------------
(***************************************************************************)
(* The message provider of the chat client (AppProvider.tsx), the chat     *)
(* screen that calls it (chst.ts), the message service it talks to         *)
(* (messges.js, over ApiClient) and the AsyncStorage it persists to.       *)
(*                                                                         *)
(* Every provider call is an async function: it runs synchronously up to   *)
(* its first await, and each later step is the continuation that runs when *)
(* the awaited Gateway or Store request settles.  A call is a slot of      *)
(* `calls`; its pc says which await it is suspended at.                    *)
(***************************************************************************)
EXTENDS Naturals, Integers, Sequences, FiniteSets, TLC

\* ------------------------------------------------------------------ bounds
MaxCalls == 4       \* provider calls ever started
MaxTime == 2        \* clock ticks (Date.now() values 1..MaxTime)
MaxIncoming == 1    \* messages the contact sends, which the service stores
MaxHistory == 2     \* messages of earlier sessions that an app start finds

Convs == {"c1", "c2"}
Texts == {"hi"}
IncomingText == "hello"

\* ------------------------------------------------------------------ values
NoContact == "null"
NoError == "null"

\* A uuid is a string or absent.  kind "srv": assigned by the service;
\* kind "ts": a Date.now() value turned into a string; "undefined": absent.
Undefined == [kind |-> "undefined", n |-> 0]
ServerUuid(n) == [kind |-> "srv", n |-> n]
\* Date.now().toString(): a decimal string, never equal to a service uuid.
NowToString(t) == [kind |-> "ts", n |-> t]
\* new Date().toISOString(): fixed-width UTC text, ordered as the instants.
ToISOString(t) == t

\* An optional value is a sequence of length 0 (null, undefined) or 1.
Null == <<>>
Some(x) == <<x>>

\* A value of AsyncStorage: getItem gives null for a key never set.
NoItem == [present |-> FALSE, json |-> <<>>]
JSONstringify(list) == [present |-> TRUE, json |-> list]
JSONparse(item) == item.json

\* A Gateway answer: response.ok, and what the body carries.
Response(ok, shape, message, list) ==
  [ok |-> ok, shape |-> shape, message |-> message, messages |-> list]

VARIABLES
  messages,        \* useState<Message[]>: the message cache
  loading,         \* useState<boolean>
  error,           \* useState<string | null>
  currentContact,  \* useState<Contact | null>
  calls,           \* the provider calls started so far, by start order
  store,           \* AsyncStorage: key messages_<contactUUID> -> item
  storeQueue,      \* AsyncStorage requests not yet served, oldest first
  remote,          \* the service's messages of each contact
  nextUuid,        \* the service's next message number
  received,        \* contact messages the service has stored
  now,             \* the clock
  contactUUID,     \* the chat screen's route parameter (NoContact: no chat open)
  alert            \* the delete confirmation dialog

vars == <<messages, loading, error, currentContact, calls, store, storeQueue,
          remote, nextUuid, received, now, contactUUID, alert>>

NoAlert == [shown |-> FALSE, uuid |-> Undefined]

Init ==
  /\ messages = <<>>
  /\ loading = FALSE
  /\ error = NoError
  /\ currentContact = NoContact
  /\ calls = <<>>
  /\ store = [c \in Convs |-> NoItem]
  /\ storeQueue = <<>>
  /\ remote = [c \in Convs |-> <<>>]
  /\ nextUuid = 1
  /\ received = 0
  /\ now = 1
  /\ contactUUID = NoContact
  /\ alert = NoAlert

\* ----------------------------------------------------------------- helpers
Has(list, m) == \E k \in 1..Len(list) : list[k] = m
HasUuid(list, u) == \E k \in 1..Len(list) : list[k].uuid = u
Count(list, u) == Cardinality({k \in 1..Len(list) : list[k].uuid = u})

\* A filter that also drops every entry without a uuid.
FilterOutAndUndefined(list, u) ==
  LET Keep(m) == m.uuid # u /\ m.uuid # Undefined IN SelectSeq(list, Keep)

\* prev.filter((msg) => msg.uuid !== messageUUID)
FilterOut(list, u) ==
  LET Keep(m) == m.uuid # u IN SelectSeq(list, Keep)

\* A merge whose order depends on what the cache holds when it runs.
MergeByCacheState(fetched, item) ==
  IF item.present
  THEN LET localMessages == JSONparse(item)
           Keep(localMsg) == ~ \E k \in 1..Len(fetched) : fetched[k].uuid = localMsg.uuid
       IN IF messages = <<>> THEN fetched \o SelectSeq(localMessages, Keep)
          ELSE SelectSeq(localMessages, Keep) \o fetched
  ELSE fetched

\* A merge that keeps every stored entry, also one the fetched list has.
MergeKeepingStored(fetched, item) ==
  IF item.present THEN fetched \o JSONparse(item) ELSE fetched

\* loadMessages' merge: the fetched list, then the stored entries whose uuid
\* no fetched entry has.
Merge(fetched, item) ==
  IF item.present
  THEN LET localMessages == JSONparse(item)
           Keep(localMsg) == ~ \E k \in 1..Len(fetched) : fetched[k].uuid = localMsg.uuid
       IN fetched \o SelectSeq(localMessages, Keep)
  ELSE fetched

\* sendMessage's newMessage from the response.
NewMessage(response, text, t) ==
  IF response.shape = "message"
  THEN response.message[1]
  ELSE [uuid |-> IF response.shape = "uuid" THEN response.message[1].uuid ELSE NowToString(t),
        text |-> text,
        createdAt |-> ToISOString(t),
        outgoing |-> TRUE]

\* What the chat screen renders.
View ==
  IF contactUUID = NoContact THEN "none"
  ELSE IF loading /\ Len(messages) = 0 THEN "spinner"
  ELSE IF error # NoError THEN "error"
  ELSE "chat"

\* The synchronous head of every provider call: setLoading(true); setError(null);
\* then the request leaves for the Gateway.
Begin(kind, c, text, u) ==
  [kind |-> kind, pc |-> "gateway", contactUUID |-> c, text |-> text,
   messageUUID |-> u, response |-> Null, newMessage |-> Null,
   fetchedMessages |-> <<>>, value |-> NoItem, returned |-> FALSE]

started == Len(calls)

\* catch: setError(msg); return null / [] / false; finally: setLoading(false).
FailureMessage(kind) ==
  CASE kind = "loadContactDetails" -> "Failed to load contact details"
    [] kind = "sendMessage" -> "Failed to send message"
    [] kind = "loadMessages" -> "Failed to load messages"
    [] kind = "deleteMessage" -> "Failed to delete message"

Caught(call) ==
  [call EXCEPT !.pc = "done", !.returned = FALSE, !.response = Null,
               !.fetchedMessages = <<>>, !.value = NoItem]

\* ------------------------------------------------------------- chat screen
\* The screen mounts for a contact: its effect calls loadContactDetails and
\* loadMessages one after the other.
OpenChat(c) ==
  /\ ~ alert.shown
  /\ started + 2 <= MaxCalls
  /\ contactUUID' = c
  /\ calls' = calls \o <<Begin("loadContactDetails", c, "", Undefined),
                         Begin("loadMessages", c, "", Undefined)>>
  /\ loading' = TRUE
  /\ error' = NoError
  /\ UNCHANGED <<messages, currentContact, store, storeQueue, remote, nextUuid,
                 received, now, alert>>

\* The send button: enabled when the text is not blank and loading is false.
HandleSendMessage(text) ==
  /\ View = "chat"
  /\ ~ alert.shown
  /\ ~ loading
  /\ started < MaxCalls
  /\ calls' = Append(calls, Begin("sendMessage", contactUUID, text, Undefined))
  /\ loading' = TRUE
  /\ error' = NoError
  /\ UNCHANGED <<messages, currentContact, store, storeQueue, remote, nextUuid,
                 received, now, contactUUID, alert>>

\* The error view's retry button.
Retry ==
  /\ View = "error"
  /\ ~ alert.shown
  /\ started < MaxCalls
  /\ calls' = Append(calls, Begin("loadMessages", contactUUID, "", Undefined))
  /\ loading' = TRUE
  /\ error' = NoError
  /\ UNCHANGED <<messages, currentContact, store, storeQueue, remote, nextUuid,
                 received, now, contactUUID, alert>>

\* Swiping a message (enabled when loading is false) and pressing Delete
\* opens the confirmation dialog for message.uuid.
HandleDeleteMessage(k) ==
  /\ View = "chat"
  /\ ~ alert.shown
  /\ ~ loading
  /\ k \in 1..Len(messages)
  /\ started < MaxCalls
  /\ alert' = [shown |-> TRUE, uuid |-> messages[k].uuid]
  /\ UNCHANGED <<messages, loading, error, currentContact, calls, store,
                 storeQueue, remote, nextUuid, received, now, contactUUID>>

AlertCancel ==
  /\ alert.shown
  /\ alert' = NoAlert
  /\ UNCHANGED <<messages, loading, error, currentContact, calls, store,
                 storeQueue, remote, nextUuid, received, now, contactUUID>>

AlertDelete ==
  /\ alert.shown
  /\ started < MaxCalls
  /\ alert' = NoAlert
  /\ calls' = Append(calls, Begin("deleteMessage", NoContact, "", alert.uuid))
  /\ loading' = TRUE
  /\ error' = NoError
  /\ UNCHANGED <<messages, currentContact, store, storeQueue, remote, nextUuid,
                 received, now, contactUUID>>

\* ----------------------------------------------------------------- service
\* The service handles a request and answers; the answer travels back.
ServeContact(i) ==
  /\ calls[i].pc = "gateway" /\ calls[i].kind = "loadContactDetails"
  /\ calls' = [calls EXCEPT ![i].pc = "responded", ![i].response = Some(Response(TRUE, "", Null, <<>>))]
  /\ UNCHANGED <<messages, loading, error, currentContact, store, storeQueue,
                 remote, nextUuid, received, now, contactUUID, alert>>

ServeGetMessages(i) ==
  /\ calls[i].pc = "gateway" /\ calls[i].kind = "loadMessages"
  /\ calls' = [calls EXCEPT ![i].pc = "responded",
                            ![i].response =
                               Some(Response(TRUE, "", Null, remote[calls[i].contactUUID]))]
  /\ UNCHANGED <<messages, loading, error, currentContact, store, storeQueue,
                 remote, nextUuid, received, now, contactUUID, alert>>

\* POST .../conversation/note: the service stores the message under a fresh
\* uuid.  The answer carries the message, only its uuid, or neither.
ServeSendMessage(i, shape) ==
  /\ calls[i].pc = "gateway" /\ calls[i].kind = "sendMessage"
  /\ LET m == [uuid |-> ServerUuid(nextUuid), text |-> calls[i].text,
               createdAt |-> ToISOString(now), outgoing |-> FALSE]
         c == calls[i].contactUUID
     IN /\ remote' = [remote EXCEPT ![c] = Append(@, m)]
        /\ calls' = [calls EXCEPT ![i].pc = "responded",
                                  ![i].response = Some(Response(TRUE, shape,
                                      IF shape = "none" THEN Null ELSE Some(m), <<>>))]
  /\ nextUuid' = nextUuid + 1
  /\ UNCHANGED <<messages, loading, error, currentContact, store, storeQueue,
                 received, now, contactUUID, alert>>

\* DELETE /messages/<uuid>: removes the message and answers ok.  For a uuid
\* the service does not know (the text "undefined", a Date.now() string, a
\* message already deleted) the answer is ok or an error status.
ServeDeleteMessage(i, ok) ==
  /\ calls[i].pc = "gateway" /\ calls[i].kind = "deleteMessage"
  /\ LET u == calls[i].messageUUID
         known == u.kind = "srv" /\ \E c \in Convs : HasUuid(remote[c], u)
     IN /\ known => ok
        /\ remote' = [c \in Convs |-> IF known THEN FilterOut(remote[c], u) ELSE remote[c]]
        /\ calls' = [calls EXCEPT ![i].pc = "responded", ![i].response = Some(Response(ok, "", Null, <<>>))]
  /\ UNCHANGED <<messages, loading, error, currentContact, store, storeQueue,
                 nextUuid, received, now, contactUUID, alert>>

\* The contact writes: the service stores a message this client did not send.
Incoming(c, withUuid) ==
  /\ received < MaxIncoming
  /\ received' = received + 1
  /\ remote' = [remote EXCEPT ![c] = Append(@,
                  [uuid |-> IF withUuid THEN ServerUuid(nextUuid) ELSE Undefined,
                   text |-> IncomingText, createdAt |-> ToISOString(now),
                   outgoing |-> FALSE])]
  /\ nextUuid' = nextUuid + 1
  /\ UNCHANGED <<messages, loading, error, currentContact, calls, store,
                 storeQueue, now, contactUUID, alert>>

Tick ==
  /\ now < MaxTime
  /\ now' = now + 1
  /\ UNCHANGED <<messages, loading, error, currentContact, calls, store,
                 storeQueue, remote, nextUuid, received, contactUUID, alert>>

\* ------------------------------------------------ Gateway continuations
\* RequestFails with a catch block that also resets the cache of a load.
RequestFailsResettingCache(i) ==
  /\ calls[i].pc \in {"gateway", "responded"}
  /\ calls' = [calls EXCEPT ![i] = Caught(@)]
  /\ error' = FailureMessage(calls[i].kind)
  /\ loading' = FALSE
  /\ messages' = IF calls[i].kind = "loadMessages" THEN <<>> ELSE messages
  /\ UNCHANGED <<currentContact, store, storeQueue, remote, nextUuid, received, now,
                 contactUUID, alert>>

\* RequestFails with a catch block that persists the text of a failed send.
RequestFailsWritingStore(i) ==
  /\ calls[i].pc \in {"gateway", "responded"}
  /\ calls' = [calls EXCEPT ![i] = Caught(@)]
  /\ error' = FailureMessage(calls[i].kind)
  /\ loading' = FALSE
  /\ store' = IF calls[i].kind = "sendMessage"
              THEN [store EXCEPT ![calls[i].contactUUID] =
                      JSONstringify(Append(JSONparse(@),
                        [uuid |-> NowToString(now), text |-> calls[i].text,
                         createdAt |-> ToISOString(now), outgoing |-> TRUE]))]
              ELSE store
  /\ UNCHANGED <<messages, currentContact, storeQueue, remote, nextUuid, received, now,
                 contactUUID, alert>>

\* The request fails (no connection, a timeout, an error status): the await
\* throws, before or after the service has handled the request.
RequestFails(i) ==
  /\ calls[i].pc \in {"gateway", "responded"}
  /\ calls' = [calls EXCEPT ![i] = Caught(@)]
  /\ error' = FailureMessage(calls[i].kind)
  /\ loading' = FALSE
  /\ UNCHANGED <<messages, currentContact, store, storeQueue, remote,
                 nextUuid, received, now, contactUUID, alert>>

\* loadContactDetails after its await.
ContactLoaded(i) ==
  /\ calls[i].pc = "responded" /\ calls[i].kind = "loadContactDetails"
  /\ calls[i].response[1].ok
  /\ currentContact' = calls[i].contactUUID
  /\ calls' = [calls EXCEPT ![i].pc = "done", ![i].returned = TRUE,
                            ![i].response = Null]
  /\ loading' = FALSE
  /\ UNCHANGED <<messages, error, store, storeQueue, remote, nextUuid,
                 received, now, contactUUID, alert>>

\* loadMessages after the fetch: keeps response.messages and asks the Store
\* for the stored list.
MessagesFetched(i) ==
  /\ calls[i].pc = "responded" /\ calls[i].kind = "loadMessages"
  /\ calls[i].response[1].ok
  /\ calls' = [calls EXCEPT ![i].pc = "getItem",
                            ![i].fetchedMessages = calls[i].response[1].messages,
                            ![i].response = Null]
  /\ storeQueue' = Append(storeQueue, i)
  /\ UNCHANGED <<messages, loading, error, currentContact, store, remote,
                 nextUuid, received, now, contactUUID, alert>>

\* sendMessage after the send: builds newMessage, appends it to the cache
\* and asks the Store for the stored list.
MessageSent(i) ==
  /\ calls[i].pc = "responded" /\ calls[i].kind = "sendMessage"
  /\ calls[i].response[1].ok
  /\ LET newMessage == NewMessage(calls[i].response[1], calls[i].text, now)
     IN /\ messages' = Append(messages, newMessage)
        /\ calls' = [calls EXCEPT ![i].pc = "getItem", ![i].newMessage = Some(newMessage),
                                  ![i].response = Null]
  /\ storeQueue' = Append(storeQueue, i)
  /\ UNCHANGED <<loading, error, currentContact, store, remote, nextUuid,
                 received, now, contactUUID, alert>>

\* MessageDeleted filtering the cache whatever the answer is.
MessageDeletedFilteringOnError(i) ==
  /\ calls[i].pc = "responded" /\ calls[i].kind = "deleteMessage"
  /\ messages' = FilterOut(messages, calls[i].messageUUID)
  /\ IF calls[i].response[1].ok
     THEN /\ calls' = [calls EXCEPT ![i].pc = "done", ![i].returned = TRUE,
                                    ![i].response = Null]
          /\ error' = error
     ELSE /\ calls' = [calls EXCEPT ![i] = Caught(@)]
          /\ error' = FailureMessage("deleteMessage")
  /\ loading' = FALSE
  /\ UNCHANGED <<currentContact, store, storeQueue, remote, nextUuid,
                 received, now, contactUUID, alert>>

\* deleteMessage after the delete: filters the cache.  An error answer throws.
MessageDeleted(i) ==
  /\ calls[i].pc = "responded" /\ calls[i].kind = "deleteMessage"
  /\ IF calls[i].response[1].ok
     THEN /\ messages' = FilterOut(messages, calls[i].messageUUID)
          /\ calls' = [calls EXCEPT ![i].pc = "done", ![i].returned = TRUE,
                                    ![i].response = Null]
          /\ error' = error
     ELSE /\ messages' = messages
          /\ calls' = [calls EXCEPT ![i] = Caught(@)]
          /\ error' = FailureMessage("deleteMessage")
  /\ loading' = FALSE
  /\ UNCHANGED <<currentContact, store, storeQueue, remote, nextUuid,
                 received, now, contactUUID, alert>>

\* StoredLoaded that also writes the merged list back to the Store.
StoredLoadedPersisting(i) ==
  /\ storeQueue # <<>> /\ Head(storeQueue) = i
  /\ calls[i].pc = "getItem" /\ calls[i].kind = "loadMessages"
  /\ LET fetchedMessages == Merge(calls[i].fetchedMessages, store[calls[i].contactUUID])
     IN /\ messages' = fetchedMessages
        /\ calls' = [calls EXCEPT ![i].pc = "done", ![i].returned = TRUE,
                                  ![i].fetchedMessages = fetchedMessages]
        /\ store' = [store EXCEPT ![calls[i].contactUUID] = JSONstringify(fetchedMessages)]
  /\ storeQueue' = Tail(storeQueue)
  /\ loading' = FALSE
  /\ UNCHANGED <<error, currentContact, remote, nextUuid, received,
                 now, contactUUID, alert>>

\* -------------------------------------------------- Store continuations
\* AsyncStorage serves its requests one at a time, in the order made.
\* loadMessages after getItem: merges, publishes and returns the merged list.
StoredLoaded(i) ==
  /\ storeQueue # <<>> /\ Head(storeQueue) = i
  /\ calls[i].pc = "getItem" /\ calls[i].kind = "loadMessages"
  /\ LET fetchedMessages == Merge(calls[i].fetchedMessages, store[calls[i].contactUUID])
     IN /\ messages' = fetchedMessages
        /\ calls' = [calls EXCEPT ![i].pc = "done", ![i].returned = TRUE,
                                  ![i].fetchedMessages = fetchedMessages]
  /\ storeQueue' = Tail(storeQueue)
  /\ loading' = FALSE
  /\ UNCHANGED <<error, currentContact, store, remote, nextUuid, received,
                 now, contactUUID, alert>>

\* sendMessage after getItem: the stored list (or []) with newMessage
\* appended goes back to the Store.
StoredRead(i) ==
  /\ storeQueue # <<>> /\ Head(storeQueue) = i
  /\ calls[i].pc = "getItem" /\ calls[i].kind = "sendMessage"
  /\ LET storedMessages == store[calls[i].contactUUID]
         list == IF storedMessages.present THEN JSONparse(storedMessages) ELSE <<>>
     IN calls' = [calls EXCEPT ![i].pc = "setItem",
                               ![i].value = JSONstringify(Append(list, calls[i].newMessage[1]))]
  /\ storeQueue' = Append(Tail(storeQueue), i)
  /\ UNCHANGED <<messages, loading, error, currentContact, store, remote,
                 nextUuid, received, now, contactUUID, alert>>

\* sendMessage after setItem: returns newMessage.
StoredWritten(i) ==
  /\ storeQueue # <<>> /\ Head(storeQueue) = i
  /\ calls[i].pc = "setItem"
  /\ store' = [store EXCEPT ![calls[i].contactUUID] = calls[i].value]
  /\ calls' = [calls EXCEPT ![i].pc = "done", ![i].returned = TRUE, ![i].value = NoItem]
  /\ storeQueue' = Tail(storeQueue)
  /\ loading' = FALSE
  /\ UNCHANGED <<messages, error, currentContact, remote, nextUuid, received,
                 now, contactUUID, alert>>

\* StoreFails with a catch block that takes the sent message back out of the
\* cache.
StoreFailsAbortingUpdate(i) ==
  /\ storeQueue # <<>> /\ Head(storeQueue) = i
  /\ calls' = [calls EXCEPT ![i] = Caught(@)]
  /\ storeQueue' = Tail(storeQueue)
  /\ error' = FailureMessage(calls[i].kind)
  /\ loading' = FALSE
  /\ messages' = IF calls[i].kind = "sendMessage"
                 THEN FilterOut(messages, calls[i].newMessage[1].uuid)
                 ELSE messages
  /\ UNCHANGED <<currentContact, store, remote, nextUuid, received,
                 now, contactUUID, alert>>

\* The Store request is rejected: the await throws.
StoreFails(i) ==
  /\ storeQueue # <<>> /\ Head(storeQueue) = i
  /\ calls' = [calls EXCEPT ![i] = Caught(@)]
  /\ storeQueue' = Tail(storeQueue)
  /\ error' = FailureMessage(calls[i].kind)
  /\ loading' = FALSE
  /\ UNCHANGED <<messages, currentContact, store, remote, nextUuid, received,
                 now, contactUUID, alert>>

\* ------------------------------------------------------------------- spec
Next ==
  \/ \E c \in Convs : OpenChat(c)
  \/ \E text \in Texts : HandleSendMessage(text)
  \/ Retry
  \/ \E k \in 1..Len(messages) : HandleDeleteMessage(k)
  \/ AlertCancel
  \/ AlertDelete
  \/ \E i \in 1..Len(calls) : ServeContact(i)
  \/ \E i \in 1..Len(calls) : ServeGetMessages(i)
  \/ \E i \in 1..Len(calls), shape \in {"message", "uuid", "none"} : ServeSendMessage(i, shape)
  \/ \E i \in 1..Len(calls), ok \in BOOLEAN : ServeDeleteMessage(i, ok)
  \/ \E c \in Convs, withUuid \in BOOLEAN : Incoming(c, withUuid)
  \/ Tick
  \/ \E i \in 1..Len(calls) : RequestFails(i)
  \/ \E i \in 1..Len(calls) : ContactLoaded(i)
  \/ \E i \in 1..Len(calls) : MessagesFetched(i)
  \/ \E i \in 1..Len(calls) : MessageSent(i)
  \/ \E i \in 1..Len(calls) : MessageDeleted(i)
  \/ \E i \in 1..Len(calls) : StoredLoaded(i)
  \/ \E i \in 1..Len(calls) : StoredRead(i)
  \/ \E i \in 1..Len(calls) : StoredWritten(i)
  \/ \E i \in 1..Len(calls) : StoreFails(i)

Spec == Init /\ [][Next]_vars

\* ------------------------------------------------------------- app start
\* The app starts again after earlier sessions: the cache and the calls are
\* gone, the Store and the service keep what the earlier sessions left.  A
\* history lists the messages of conversation "c1" in the order the service
\* stored them: a message this client sent (the service stored it at time s,
\* the answer of the given shape arrived at time d, and sendMessage stored
\* its newMessage), or a message of the contact.
Event(kind, shape, s, d, withUuid) ==
  [kind |-> kind, shape |-> shape, s |-> s, d |-> d, withUuid |-> withUuid]

Events ==
  {Event("sent", shape, s, d, TRUE) :
     shape \in {"message", "uuid", "none"}, s \in 1..MaxTime, d \in 1..MaxTime}
  \cup {Event("incoming", "", s, s, withUuid) : s \in 1..MaxTime, withUuid \in BOOLEAN}

Histories ==
  {h \in UNION {[1..n -> Events] : n \in 0..MaxHistory} :
     /\ \A k \in 1..Len(h) : h[k].s <= h[k].d
     /\ \A k \in 1..Len(h) - 1 : h[k].s <= h[k + 1].s /\ h[k].d <= h[k + 1].d}

ServiceMessage(h, k) ==
  [uuid |-> IF h[k].withUuid THEN ServerUuid(k) ELSE Undefined,
   text |-> IF h[k].kind = "sent" THEN "hi" ELSE IncomingText,
   createdAt |-> ToISOString(h[k].s),
   outgoing |-> FALSE]

RemoteOf(h) == [k \in 1..Len(h) |-> ServiceMessage(h, k)]

RECURSIVE StoredOf(_, _)
StoredOf(h, n) ==
  IF n = 0 THEN <<>>
  ELSE IF h[n].kind = "sent"
       THEN Append(StoredOf(h, n - 1),
                   NewMessage(Response(TRUE, h[n].shape,
                                       IF h[n].shape = "none" THEN Null
                                       ELSE Some(ServiceMessage(h, n)), <<>>),
                              "hi", h[n].d))
       ELSE StoredOf(h, n - 1)

InitLoad ==
  /\ messages = <<>>
  /\ loading = FALSE
  /\ error = NoError
  /\ currentContact = NoContact
  /\ calls = <<>>
  /\ storeQueue = <<>>
  /\ contactUUID = NoContact
  /\ alert = NoAlert
  /\ \E h \in Histories :
       /\ remote = [c \in Convs |-> IF c = "c1" THEN RemoteOf(h) ELSE <<>>]
       /\ store = [c \in Convs |->
                    IF c = "c1" /\ StoredOf(h, Len(h)) # <<>>
                    THEN JSONstringify(StoredOf(h, Len(h))) ELSE NoItem]
       /\ nextUuid = Len(h) + 1
       /\ received = Cardinality({k \in 1..Len(h) : h[k].kind = "incoming"})
       /\ now = IF Len(h) = 0 THEN 1 ELSE h[Len(h)].d

\* The user only opens chats and retries failed loads.
NextLoad ==
  \/ \E c \in Convs : OpenChat(c)
  \/ Retry
  \/ \E i \in 1..Len(calls) : ServeContact(i)
  \/ \E i \in 1..Len(calls) : ServeGetMessages(i)
  \/ \E i \in 1..Len(calls) : RequestFails(i)
  \/ \E i \in 1..Len(calls) : ContactLoaded(i)
  \/ \E i \in 1..Len(calls) : MessagesFetched(i)
  \/ \E i \in 1..Len(calls) : StoredLoaded(i)
  \/ \E i \in 1..Len(calls) : StoreFails(i)

SpecLoad == InitLoad /\ [][NextLoad]_vars

\* ------------------------------------------------------- call predicates
InFlight(i) == calls[i].pc # "done"
Succeeded(i) == calls[i].pc = "done" /\ calls[i].returned
Quiet == \A i \in 1..Len(calls) : ~ InFlight(i)
NoDeleteCalled == \A i \in 1..Len(calls) : calls[i].kind # "deleteMessage"
OneConversation ==
  \A i, j \in 1..started : calls[i].contactUUID = calls[j].contactUUID
HasText(list, text) == \E k \in 1..Len(list) : list[k].text = text

\* ----------------------------------------------------------------- claims
\* C1: when loadMessages and sendMessage calls on one conversation have all
\* completed (in any interleaving, nothing deleted) and a send succeeded, the
\* cache contains the message that send returned.
C1_SentMessageSurvivesLoad ==
  (Quiet /\ NoDeleteCalled /\ OneConversation) =>
    \A i \in 1..Len(calls) :
      (calls[i].kind = "sendMessage" /\ Succeeded(i)) =>
        HasUuid(messages, calls[i].newMessage[1].uuid)

\* C2: at most one loadMessages or sendMessage call of a conversation is
\* between its start and its completion.
C2_OneMutationPerConversation ==
  \A c \in Convs :
    Cardinality({i \in 1..Len(calls) :
                   /\ InFlight(i)
                   /\ calls[i].kind \in {"loadMessages", "sendMessage"}
                   /\ calls[i].contactUUID = c}) <= 1

\* C3: the Store's list of a conversation contains the message of every
\* sendMessage call for it that succeeded.
C3_StoreKeepsEverySend ==
  \A i \in 1..Len(calls) :
    (calls[i].kind = "sendMessage" /\ Succeeded(i)) =>
      Has(JSONparse(store[calls[i].contactUUID]), calls[i].newMessage[1])

\* C4: the cache never holds two entries with the same uuid.
C4_CacheUuidsUnique ==
  \A k1, k2 \in 1..Len(messages) :
    (k1 # k2 /\ messages[k1].uuid = messages[k2].uuid) =>
      messages[k1].uuid = Undefined

\* C5: the list a successful loadMessages merges, publishes and returns
\* holds no two messages with the same uuid.
C5_MergedUuidsUnique ==
  \A i \in 1..Len(calls) :
    (calls[i].kind = "loadMessages" /\ Succeeded(i)) =>
      \A k1, k2 \in 1..Len(calls[i].fetchedMessages) :
        (k1 # k2 /\ calls[i].fetchedMessages[k1].uuid = calls[i].fetchedMessages[k2].uuid) =>
          calls[i].fetchedMessages[k1].uuid = Undefined

\* C6: the list a successful loadMessages merges, publishes and returns is
\* in createdAt order, non-decreasing from each entry to the next.
C6_MergedInCreatedAtOrder ==
  \A i \in 1..Len(calls) :
    (calls[i].kind = "loadMessages" /\ Succeeded(i)) =>
      \A k \in 1..Len(calls[i].fetchedMessages) - 1 :
        calls[i].fetchedMessages[k].createdAt <= calls[i].fetchedMessages[k + 1].createdAt

\* C7: a loadMessages call that fails leaves the cache as it is: its start,
\* its fetch and the step that fails (the Gateway or the Store rejecting)
\* change no entry of the cache.
C7_FailedLoadKeepsCache ==
  [][\A i \in 1..Len(calls') :
       ( /\ calls'[i].kind = "loadMessages"
         /\ (i > Len(calls) \/ calls'[i] # calls[i])
         /\ ~ (calls'[i].pc = "done" /\ calls'[i].returned) )
       => messages' = messages]_vars

\* C7 witness: the last call made is a load that has failed, and the cache
\* still holds the messages an earlier load published.
C7_Witness ==
  /\ messages # <<>>
  /\ calls # <<>>
  /\ calls[Len(calls)].kind = "loadMessages"
  /\ calls[Len(calls)].pc = "done" /\ ~ calls[Len(calls)].returned
  /\ \E j \in 1..Len(calls) - 1 :
       /\ calls[j].kind = "loadMessages" /\ Succeeded(j)
       /\ calls[j].fetchedMessages = messages

\* C8: while the send request of a sendMessage call is in flight, the cache
\* holds an entry with the sent text.
C8_EntryWhileSendInFlight ==
  \A i \in 1..Len(calls) :
    (calls[i].kind = "sendMessage" /\ calls[i].pc \in {"gateway", "responded"}) =>
      HasText(messages, calls[i].text)

\* C9: once the Gateway has confirmed a send with a uuid, the cache holds
\* exactly one entry with that uuid (nothing deleted, one conversation).
C9_ConfirmedExactlyOnce ==
  (NoDeleteCalled /\ OneConversation) =>
    \A i \in 1..Len(calls) :
      ( /\ calls[i].kind = "sendMessage"
        /\ calls[i].newMessage # Null
        /\ calls[i].newMessage[1].uuid.kind = "srv" )
      => Count(messages, calls[i].newMessage[1].uuid) = 1

\* C10: when the Gateway send request fails, the cache holds an entry with
\* the sent text after the call.
C10_FailedSendStaysVisible ==
  [][\A i \in 1..Len(calls) :
       ( /\ calls[i].kind = "sendMessage"
         /\ calls[i].pc \in {"gateway", "responded"}
         /\ calls'[i].pc = "done" )
       => HasText(messages', calls[i].text)]_vars


\* C11: a sendMessage call whose Gateway request fails writes nothing to the
\* Store: no step of the call up to and including the failure (its start,
\* the service handling it, the await throwing) changes the persisted list
\* of any conversation or asks the Store for anything.
C11_FailedSendWritesNothing ==
  [][\A i \in 1..Len(calls') :
       ( /\ calls'[i].kind = "sendMessage"
         /\ (i > Len(calls) \/ calls'[i] # calls[i])
         /\ calls'[i].newMessage = Null )
       => (store' = store /\ storeQueue' = storeQueue)]_vars

\* C11 witness: a send has failed at the Gateway while the Store holds the
\* list an earlier send of the same conversation wrote.
C11_Witness ==
  \E i \in 1..Len(calls) :
    /\ calls[i].kind = "sendMessage" /\ calls[i].pc = "done"
    /\ ~ calls[i].returned /\ calls[i].newMessage = Null
    /\ \E j \in 1..i - 1 :
         /\ calls[j].kind = "sendMessage" /\ Succeeded(j)
         /\ calls[j].contactUUID = calls[i].contactUUID
         /\ store[calls[i].contactUUID] = JSONstringify(<<calls[j].newMessage[1]>>)


\* C12: when deleteMessage(id) succeeds, the message is gone from the cache;
\* if the Store's persisted list of a conversation held it (it was sent from
\* here and confirmed), it is gone from that list too, and every other
\* persisted list is unchanged.
C12_DeleteRemovesBothLayers ==
  [][\A i \in 1..Len(calls) :
       ( /\ calls[i].kind = "deleteMessage" /\ calls[i].pc = "responded"
         /\ calls'[i].pc = "done" /\ calls'[i].returned )
       => LET u == calls[i].messageUUID
          IN /\ ~ HasUuid(messages', u)
             /\ \A c \in Convs :
                  IF HasUuid(JSONparse(store[c]), u)
                  THEN ~ HasUuid(JSONparse(store'[c]), u)
                  ELSE store'[c] = store[c]]_vars


\* C13: when the Gateway delete request fails, deleteMessage leaves the cache
\* unchanged, returns false and sets the error slot: no step of the call up
\* to and including the failure changes the cache, and the failing step
\* sets the error.
C13_FailedDeleteKeepsCache ==
  [][\A i \in 1..Len(calls') :
       ( /\ calls'[i].kind = "deleteMessage"
         /\ (i > Len(calls) \/ calls'[i] # calls[i])
         /\ ~ (calls'[i].pc = "done" /\ calls'[i].returned) )
       => /\ messages' = messages
          /\ calls'[i].pc = "done" =>
               (~ calls'[i].returned /\ error' = "Failed to delete message")]_vars

\* C13 witness: a delete has failed, the error slot says so and the cache
\* still holds the message it was asked to delete.
C13_Witness ==
  \E i \in 1..Len(calls) :
    /\ calls[i].kind = "deleteMessage" /\ calls[i].pc = "done" /\ ~ calls[i].returned
    /\ error = "Failed to delete message"
    /\ HasUuid(messages, calls[i].messageUUID)


\* C14: once the chat on screen has loaded its conversation, no step of a
\* loadMessages or sendMessage call for another conversation changes the
\* cached message list or the error slot, and no step of such a call ever
\* changes the persisted list of a conversation other than its own.
C14_OtherConversationUntouched ==
  [][\A i \in 1..Len(calls') :
       ( /\ calls'[i].kind \in {"loadMessages", "sendMessage"}
         /\ (i > Len(calls) \/ calls'[i] # calls[i]) )
       => /\ \A c \in Convs \ {calls'[i].contactUUID} : store'[c] = store[c]
          /\ ( /\ contactUUID' # calls'[i].contactUUID
               /\ \E j \in 1..Len(calls) :
                    /\ calls[j].kind = "loadMessages" /\ Succeeded(j)
                    /\ calls[j].contactUUID = contactUUID' )
             => (messages' = messages /\ error' = error)]_vars


\* C15: a loadMessages call whose Gateway fetch succeeded always succeeds:
\* when its Store read settles it returns and publishes the merge of the
\* remote list with the stored list, or, when the read failed, exactly the
\* remote list.
C15_StoreReadFailureIsNoLocal ==
  [][\A i \in 1..Len(calls) :
       ( /\ calls[i].kind = "loadMessages" /\ calls[i].pc = "getItem"
         /\ calls'[i].pc = "done" )
       => /\ calls'[i].returned
          /\ messages' = calls'[i].fetchedMessages
          /\ messages' \in {calls[i].fetchedMessages,
                            Merge(calls[i].fetchedMessages, store[calls[i].contactUUID])}]_vars


\* C16: a Store failure after the Gateway confirmed a send does not abort
\* the in-memory update: the step that receives the confirmation puts the
\* confirmed message into the cache, no later step of the call changes the
\* cache, and the step at which the Store read or write fails sets the
\* error slot.
C16_StoreWriteFailureKeepsMessage ==
  [][\A i \in 1..Len(calls) :
       ( /\ calls[i].kind = "sendMessage"
         /\ calls'[i] # calls[i]
         /\ calls'[i].newMessage # Null )
       => /\ IF calls[i].newMessage = Null
             THEN Has(messages', calls'[i].newMessage[1])
             ELSE messages' = messages
          /\ (calls'[i].pc = "done" /\ ~ calls'[i].returned) =>
               error' = "Failed to send message"]_vars

\* C16 witness: the Store write of a confirmed send has failed, the message
\* is in the cache and the error slot is set.
C16_Witness ==
  \E i \in 1..Len(calls) :
    /\ calls[i].kind = "sendMessage" /\ calls[i].pc = "done" /\ ~ calls[i].returned
    /\ calls[i].newMessage # Null
    /\ Has(messages, calls[i].newMessage[1])
    /\ error = "Failed to send message"
    /\ ~ Has(JSONparse(store[calls[i].contactUUID]), calls[i].newMessage[1])


\* C17: the Store holds locally sent messages only: every entry of a
\* conversation's persisted list is the newMessage of a sendMessage call for
\* that conversation, and a step that changes the Store is the Store write
\* of a sendMessage call.
C17_StoreHoldsSentOnly ==
  [][/\ \A c \in Convs : \A k \in 1..Len(JSONparse(store'[c])) :
          \E i \in 1..Len(calls') :
            /\ calls'[i].kind = "sendMessage" /\ calls'[i].contactUUID = c
            /\ calls'[i].newMessage = Some(JSONparse(store'[c])[k])
     /\ store' # store =>
          \E i \in 1..Len(calls) :
            /\ calls[i].kind = "sendMessage" /\ calls[i].pc = "setItem"
            /\ calls'[i].pc = "done"]_vars

\* C17 witness: a load has put a message of the contact into the cache
\* while the Store of that conversation holds a sent message and not the
\* contact's.
C17_Witness ==
  \E c \in Convs :
    /\ store[c].present /\ JSONparse(store[c]) # <<>>
    /\ \E k \in 1..Len(messages) :
         /\ messages[k].text = IncomingText
         /\ Has(remote[c], messages[k])
         /\ ~ Has(JSONparse(store[c]), messages[k])
    /\ \E i \in 1..Len(calls) :
         calls[i].kind = "loadMessages" /\ Succeeded(i) /\ calls[i].contactUUID = c


\* C18: a successful loadMessages publishes as the cache, and returns, the
\* merge of the remote list it fetched and the stored list: every remote
\* message, every stored message whose uuid no remote message has, and
\* nothing else; a stored message whose uuid a remote message has is dropped
\* in favour of the remote one.
C18_LoadPublishesMerge ==
  [][\A i \in 1..Len(calls) :
       ( /\ calls[i].kind = "loadMessages" /\ calls[i].pc = "getItem"
         /\ calls'[i].pc = "done" /\ calls'[i].returned )
       => LET remoteList == calls[i].fetchedMessages
              stored == JSONparse(store[calls[i].contactUUID])
              result == calls'[i].fetchedMessages
              kept == {k \in 1..Len(stored) : ~ HasUuid(remoteList, stored[k].uuid)}
          IN /\ messages' = result
             /\ \A k \in 1..Len(remoteList) : Has(result, remoteList[k])
             /\ \A k \in kept : Has(result, stored[k])
             /\ \A k \in 1..Len(result) :
                  \/ Has(remoteList, result[k])
                  \/ \E k2 \in kept : stored[k2] = result[k]
             /\ Len(result) = Len(remoteList) + Cardinality(kept)]_vars

\* C18 witness: a load has succeeded on a stored list with one entry whose
\* uuid a remote message has (the stored copy differs and is not in the
\* cache) and one entry whose uuid no remote message has (it is in the
\* cache).
C18_Witness ==
  \E i \in 1..Len(calls) :
    /\ calls[i].kind = "loadMessages" /\ Succeeded(i)
    /\ messages = calls[i].fetchedMessages
    /\ LET c == calls[i].contactUUID
           stored == JSONparse(store[c])
       IN /\ \E k \in 1..Len(stored) :
               /\ HasUuid(remote[c], stored[k].uuid)
               /\ ~ Has(remote[c], stored[k])
               /\ ~ Has(messages, stored[k])
          /\ \E k \in 1..Len(stored) :
               /\ ~ HasUuid(remote[c], stored[k].uuid)
               /\ Has(messages, stored[k])
          /\ \A k \in 1..Len(remote[c]) : Has(messages, remote[c][k])


C20_DeleteRemovesExactlyMatching ==
  [][\A i \in 1..Len(calls) :
       ( /\ calls[i].kind = "deleteMessage" /\ calls[i].pc = "responded"
         /\ calls'[i].pc = "done" /\ calls'[i].returned )
       => LET u == calls[i].messageUUID
              removedBefore(p) == Cardinality({q \in 1..p - 1 : messages[q].uuid = u})
          IN /\ Len(messages') = Len(messages) - Count(messages, u)
             /\ \A p \in 1..Len(messages) :
                  messages[p].uuid # u =>
                    messages'[p - removedBefore(p)] = messages[p]]_vars

\* C20 witness: a delete with the absent uuid has succeeded, it came after
\* a load that returned an entry without uuid, and the cache still holds
\* another entry and none without uuid.
C20_Witness ==
  \E i \in 1..Len(calls) :
    /\ calls[i].kind = "deleteMessage" /\ Succeeded(i)
    /\ calls[i].messageUUID = Undefined
    /\ messages # <<>>
    /\ ~ HasUuid(messages, Undefined)
    /\ \E j \in 1..i - 1 :
         /\ calls[j].kind = "loadMessages" /\ Succeeded(j)
         /\ HasUuid(calls[j].fetchedMessages, Undefined)


\* C21: a deleted message does not come back: once deleteMessage(id) has
\* succeeded for a message a sendMessage call of this client produced, a
\* loadMessages call that succeeds afterwards on a remote list without that
\* uuid publishes a cache without it.
C21_DeletedStaysDeleted ==
  [][\A i \in 1..Len(calls) :
       ( /\ calls[i].kind = "loadMessages" /\ calls[i].pc = "getItem"
         /\ calls'[i].pc = "done" /\ calls'[i].returned )
       => \A j \in 1..Len(calls) :
            ( /\ calls[j].kind = "deleteMessage" /\ Succeeded(j)
              /\ \E s \in 1..Len(calls) :
                   /\ calls[s].kind = "sendMessage" /\ calls[s].newMessage # Null
                   /\ calls[s].newMessage[1].uuid = calls[j].messageUUID
              /\ ~ HasUuid(calls[i].fetchedMessages, calls[j].messageUUID)
              /\ ~ HasUuid(remote[calls[i].contactUUID], calls[j].messageUUID) )
            => ~ HasUuid(messages', calls[j].messageUUID)]_vars


\* C22: the loading flag is true exactly when a provider call
\* (loadContactDetails, loadMessages, sendMessage, deleteMessage) is in
\* flight: started and not yet completed.
C22_LoadingIffInFlight ==
  loading <=> \E i \in 1..Len(calls) : InFlight(i)

\* C23: sendMessage reports a failed send only when its Gateway request
\* failed: a call that received the Gateway's confirmation ends by returning
\* the message, and its last step records no failure in the error slot.
C23_FailureOnlyWhenGatewayFailed ==
  [][\A i \in 1..Len(calls) :
       ( /\ calls[i].kind = "sendMessage"
         /\ calls[i].newMessage # Null
         /\ calls[i].pc # "done" /\ calls'[i].pc = "done" )
       => (calls'[i].returned /\ error' = error)]_vars

=============================================================================
